---- MODULE Spec2Model ----
(***************************************************************************)
(* Model of fontname.py: main(argv) walks the argument list in pairs       *)
(* ("Family:Style", font path), rewrites the name records 1, 2, 4, 6 and   *)
(* 16 and the CFF names of each font and saves it under a derived file     *)
(* name.  A Python str is a sequence of one-character strings.  The font   *)
(* library (fontTools) is an opaque collaborator: a font file is held in   *)
(* the file system as the tables the program reads and writes.             *)
(***************************************************************************)
EXTENDS Integers, Sequences, FiniteSets, TLC

\* longest argument list that is explored
MaxArgs == 4

----------------------------------------------------------------------------
\* Python string primitives used by main

\* str.lstrip(): drop leading whitespace
RECURSIVE lstrip(_)
lstrip(s) == IF s # <<>> /\ Head(s) = " " THEN lstrip(Tail(s)) ELSE s

\* str.rstrip(): drop trailing whitespace
RECURSIVE rstrip(_)
rstrip(s) ==
    IF s # <<>> /\ s[Len(s)] = " " THEN rstrip(SubSeq(s, 1, Len(s) - 1)) ELSE s

\* str.strip()
strip(s) == rstrip(lstrip(s))

\* str.find(c): 0-based index of the first occurrence of c, -1 when absent
find(s, c) ==
    IF \E k \in 1..Len(s) : s[k] = c
    THEN (CHOOSE k \in 1..Len(s) : s[k] = c /\ \A j \in 1..(k - 1) : s[j] # c) - 1
    ELSE -1

\* str.rfind(c): 0-based index of the last occurrence of c, -1 when absent
rfind(s, c) ==
    IF \E k \in 1..Len(s) : s[k] = c
    THEN (CHOOSE k \in 1..Len(s) :
              s[k] = c /\ \A j \in (k + 1)..Len(s) : s[j] # c) - 1
    ELSE -1

\* family_style.split(":", 1) for a string that contains ":"
split(s, c) ==
    LET k == find(s, c) IN <<SubSeq(s, 1, k), SubSeq(s, k + 2, Len(s))>>

\* str.replace(old, new) for a one-character old
RECURSIVE replace(_, _, _)
replace(s, old, new) ==
    IF s = <<>> THEN <<>>
    ELSE (IF Head(s) = old THEN new ELSE <<Head(s)>>)
             \o replace(Tail(s), old, new)

\* variant: the extension starts at the first dot of the path
splitext_first(p) ==
    LET dotIndex == find(p, ".")
    IN  IF dotIndex > 0
        THEN <<SubSeq(p, 1, dotIndex), SubSeq(p, dotIndex + 1, Len(p))>>
        ELSE <<p, <<>>>>

\* os.path.splitext(p): the extension starts at the last dot of the last
\* path component, leading dots of that component do not count
splitext(p) ==
    LET sepIndex == rfind(p, "/")
        dotIndex == rfind(p, ".")
    IN  IF /\ dotIndex > sepIndex
           /\ \E filenameIndex \in (sepIndex + 1)..(dotIndex - 1) :
                  p[filenameIndex + 1] # "."
        THEN <<SubSeq(p, 1, dotIndex), SubSeq(p, dotIndex + 1, Len(p))>>
        ELSE <<p, <<>>>>

\* f"{postscript_font_name}-{safe_style}{ext}"
filename_format(postscript_font_name, safe_style, ext) ==
    postscript_font_name \o <<"-">> \o safe_style \o ext

----------------------------------------------------------------------------
\* Fonts and the file system

Rec(id, plat, enc, lang, s) ==
    [nameID |-> id, platformID |-> plat, platEncID |-> enc, langID |-> lang,
     string |-> s]

NoCFF == [FamilyName |-> <<>>, FullName |-> <<>>, fontNames |-> <<>>]

NoFont == [id |-> "none", has_name |-> FALSE, names |-> <<>>,
           has_cff |-> FALSE, cff |-> NoCFF]

\* TrueType font, Windows records only, no typographic family record
FontA ==
    [id |-> "A", has_name |-> TRUE,
     names |-> << Rec(1, 3, 1, 1033, <<"O">>),
                  Rec(2, 3, 1, 1033, <<"R">>),
                  Rec(3, 3, 1, 1033, <<"U">>),
                  Rec(4, 3, 1, 1033, <<"O", " ", "R">>),
                  Rec(6, 3, 1, 1033, <<"O", "-", "R">>) >>,
     has_cff |-> FALSE, cff |-> NoCFF]

\* OpenType/CFF font, Macintosh and Windows records, with record 16
FontB ==
    [id |-> "B", has_name |-> TRUE,
     names |-> << Rec(1, 1, 0, 0, <<"O">>),
                  Rec(1, 3, 1, 1033, <<"O">>),
                  Rec(2, 3, 1, 1033, <<"R">>),
                  Rec(4, 3, 1, 1033, <<"O", " ", "R">>),
                  Rec(5, 3, 1, 1033, <<"V">>),
                  Rec(6, 3, 1, 1033, <<"O", "-", "R">>),
                  Rec(16, 3, 1, 1033, <<"O">>) >>,
     has_cff |-> TRUE,
     cff |-> [FamilyName |-> <<"O">>, FullName |-> <<"O", " ", "R">>,
              fontNames |-> << <<"O", "-", "R">> >>]]

\* a font container without a name table
FontN == [id |-> "N", has_name |-> FALSE, names |-> <<>>,
          has_cff |-> FALSE, cff |-> NoCFF]

FontFile(f) == [kind |-> "font", font |-> f]
JunkFile == [kind |-> "junk", font |-> NoFont]
Directory == [kind |-> "dir", font |-> NoFont]

P_plain == <<"f", ".", "O", "T", "F">>
P_hidden == <<"d", ".", "x", "/", ".", "g">>
P_dotfile == <<".", "h", ".", "O", "T", "F">>
P_junk == <<"j", ".", "t", "t", "f">>
P_dir == <<"d", ".", "x">>
P_noname == <<"n", ".", "o", "t", "f">>
P_out == <<"A", "B", "-", "C", "D", ".", "O", "T", "F">>

\* the font paths given on the command line; P_out does not exist at start
FontPaths == {P_plain, P_hidden, P_dotfile, P_junk, P_dir, P_noname, P_out}

\* the directory content the program starts in
InitialFiles ==
    (P_plain :> FontFile(FontA)) @@ (P_hidden :> FontFile(FontB)) @@
    (P_dotfile :> FontFile(FontB)) @@ (P_junk :> JunkFile) @@
    (P_dir :> Directory) @@ (P_noname :> FontFile(FontN))

T_spaces == <<" ", "A", " ", "B", ":", " ", "C", " ", "D", " ">>
T_plain == <<"A", "B", ":", "C", "D">>
T_nocolon == <<"A", " ", "B">>
T_nofamily == <<":", "C">>
T_nostyle == <<"A", ":", " ">>
T_twocolons == <<"A", ":", "B", ":", "C">>

\* the "Family:Style" tokens given on the command line
SpecTokens == {T_spaces, T_plain, T_nocolon, T_nofamily, T_nostyle, T_twocolons}

\* argument lists: tokens at the even Python indexes, paths at the odd ones
ArgLists ==
    UNION { { a \in [1..n -> SpecTokens \cup FontPaths] :
                \A k \in 1..n : IF k % 2 = 1 THEN a[k] \in SpecTokens
                                             ELSE a[k] \in FontPaths }
            : n \in 0..MaxArgs }

\* variant: os.path.exists(filepath) alone
file_exists_any(files, filepath) == filepath \in DOMAIN files

\* os.path.exists(filepath) and os.path.isfile(filepath)
file_exists(files, filepath) ==
    filepath \in DOMAIN files /\ files[filepath].kind \in {"font", "junk"}

----------------------------------------------------------------------------
\* State of one run of main(argv)

VARIABLES
    argv,                  \* sys.argv[1:]
    fs,                    \* the files on disk: path -> content
    pc,                    \* position of main: start, for, load, names, cff,
                           \* save, done (returned) or exited
    i,                     \* loop index of the pair (0, 2, 4, ...)
    family_style,          \* locals of main, named as in the source
    font_path,
    font_name,
    style,
    tt,
    postscript_font_name,
    nameID1_string,
    nameID16_string,
    nameID4_string,
    nameID6_string,
    new_filename,
    stdout,                \* lines printed
    stderr,                \* kinds of the messages written to sys.stderr
    exit_code,             \* process exit status, -1 while running
    io                     \* history of the file system calls made

locals == <<family_style, font_path, font_name, style, tt,
            postscript_font_name, nameID1_string, nameID16_string,
            nameID4_string, nameID6_string, new_filename>>

vars == <<argv, fs, pc, i, locals, stdout, stderr, exit_code, io>>

IOEvent(op, path, ok, font) ==
    [op |-> op, pair |-> i, path |-> path, ok |-> ok, font |-> font]

\* print(" ")
BlankLine == [kind |-> "blank", file |-> <<>>, family |-> <<>>, style |-> <<>>]

\* print(f"[OK] Saved '{new_filename}' with family '{font_name}' and style '{style}'")
OKLine(file, family, sty) ==
    [kind |-> "ok", file |-> file, family |-> family, style |-> sty]

Init ==
    /\ argv \in ArgLists
    /\ fs = InitialFiles
    /\ pc = "start"
    /\ i = 0
    /\ family_style = <<>>
    /\ font_path = <<>>
    /\ font_name = <<>>
    /\ style = <<>>
    /\ tt = NoFont
    /\ postscript_font_name = <<>>
    /\ nameID1_string = <<>>
    /\ nameID16_string = <<>>
    /\ nameID4_string = <<>>
    /\ nameID6_string = <<>>
    /\ new_filename = <<>>
    /\ stdout = <<>>
    /\ stderr = <<>>
    /\ exit_code = -1
    /\ io = <<>>

\* variant: the process ends with status 0
Exit1_zero(messages) ==
    /\ stderr' = stderr \o messages
    /\ exit_code' = 0
    /\ pc' = "exited"

\* sys.exit(1), or an exception nothing catches: the interpreter prints the
\* traceback and the process ends with status 1
Exit1(messages) ==
    /\ stderr' = stderr \o messages
    /\ exit_code' = 1
    /\ pc' = "exited"

\* line 32: the argument list is not a non-empty list of pairs
bad_args_m(args) == Len(args) % 2 # 0
bad_args(args) == Len(args) < 2 \/ Len(args) % 2 # 0

\* lines 29-39: the blank line, then the check of the argument count.  The
\* usage line is an f-string that evaluates {ttf,otf}: it raises NameError
\* after the first message was written, so line 39 is never reached.
CheckArgs ==
    /\ pc = "start"
    /\ stdout' = Append(stdout, BlankLine)
    /\ IF bad_args(argv)
       THEN Exit1(<<"args_error", "traceback">>)
       ELSE /\ pc' = "for"
            /\ UNCHANGED <<stderr, exit_code>>
    /\ UNCHANGED <<argv, fs, i, locals, io>>

\* lines 42-67: take the next pair, split the token, check the path
NextPair ==
    /\ pc = "for"
    /\ i < Len(argv)
    /\ family_style' = argv[i + 1]
    /\ font_path' = argv[i + 2]
    /\ IF find(family_style', ":") = -1
       THEN /\ Exit1(<<"format_error">>)
            /\ UNCHANGED <<font_name, style, io>>
       ELSE /\ font_name' = strip(split(family_style', ":")[1])
            /\ style' = strip(split(family_style', ":")[2])
            /\ io' = Append(io, IOEvent("exists", font_path',
                                        file_exists(fs, font_path'), "none"))
            /\ IF ~file_exists(fs, font_path')
               THEN Exit1(<<"path_error">>)
               ELSE /\ pc' = "load"
                    /\ UNCHANGED <<stderr, exit_code>>
    /\ UNCHANGED <<argv, fs, i, tt, postscript_font_name, nameID1_string,
                   nameID16_string, nameID4_string, nameID6_string,
                   new_filename, stdout>>

\* line 42, range exhausted: main returns and the process ends with status 0
Return ==
    /\ pc = "for"
    /\ i >= Len(argv)
    /\ pc' = "done"
    /\ exit_code' = 0
    /\ UNCHANGED <<argv, fs, i, locals, stdout, stderr, io>>

\* ttLib.TTFont(font_path): the font held by the file
TTFont(files, path) == files[path].font

\* variant: a font that does not load is reported and the loop goes on
\* with the next pair
LoadFont_skip ==
    /\ pc = "load"
    /\ LET ok == fs[font_path].kind = "font" /\ TTFont(fs, font_path).has_name
       IN  /\ io' = Append(io, IOEvent("load", font_path, ok,
                                       TTFont(fs, font_path).id))
           /\ IF ok
              THEN /\ tt' = TTFont(fs, font_path)
                   /\ pc' = "names"
                   /\ UNCHANGED <<stderr, i>>
              ELSE /\ stderr' = Append(stderr, "traceback")
                   /\ i' = i + 2
                   /\ pc' = "for"
                   /\ UNCHANGED tt
    /\ UNCHANGED <<argv, fs, exit_code, family_style, font_path, font_name,
                   style, postscript_font_name, nameID1_string,
                   nameID16_string, nameID4_string, nameID6_string,
                   new_filename, stdout>>

\* lines 69-70: load the font and take its name records; neither statement
\* is inside a try, so a file that is no font, or a font without a name
\* table, ends the process with a traceback
LoadFont ==
    /\ pc = "load"
    /\ LET ok == fs[font_path].kind = "font" /\ TTFont(fs, font_path).has_name
       IN  /\ io' = Append(io, IOEvent("load", font_path, ok,
                                       TTFont(fs, font_path).id))
           /\ IF ok
              THEN /\ tt' = TTFont(fs, font_path)
                   /\ pc' = "names"
                   /\ UNCHANGED <<stderr, exit_code>>
              ELSE /\ Exit1(<<"traceback">>)
                   /\ UNCHANGED tt
    /\ UNCHANGED <<argv, fs, i, family_style, font_path, font_name, style,
                   postscript_font_name, nameID1_string, nameID16_string,
                   nameID4_string, nameID6_string, new_filename, stdout>>

\* variant: the full name and the PostScript name are exchanged
record_update_swapped(record, id1, id4, id6, id16, sty) ==
    IF record.nameID = 1 THEN [record EXCEPT !.string = id1]
    ELSE IF record.nameID = 4 THEN [record EXCEPT !.string = id6]
    ELSE IF record.nameID = 6 THEN [record EXCEPT !.string = id4]
    ELSE IF record.nameID = 16 THEN [record EXCEPT !.string = id16]
    ELSE IF record.nameID = 2 THEN [record EXCEPT !.string = sty]
    ELSE record

\* variant: the last branch is a plain else
record_update_else(record, id1, id4, id6, id16, sty) ==
    IF record.nameID = 1 THEN [record EXCEPT !.string = id1]
    ELSE IF record.nameID = 4 THEN [record EXCEPT !.string = id4]
    ELSE IF record.nameID = 6 THEN [record EXCEPT !.string = id6]
    ELSE IF record.nameID = 16 THEN [record EXCEPT !.string = id16]
    ELSE [record EXCEPT !.string = sty]

\* lines 81-90: the new string of one name record
record_update(record, id1, id4, id6, id16, sty) ==
    IF record.nameID = 1 THEN [record EXCEPT !.string = id1]
    ELSE IF record.nameID = 4 THEN [record EXCEPT !.string = id4]
    ELSE IF record.nameID = 6 THEN [record EXCEPT !.string = id6]
    ELSE IF record.nameID = 16 THEN [record EXCEPT !.string = id16]
    ELSE IF record.nameID = 2 THEN [record EXCEPT !.string = sty]
    ELSE record

\* lines 72-90: derive the strings and update the records in place
UpdateNameRecords ==
    /\ pc = "names"
    /\ postscript_font_name' = replace(font_name, " ", <<>>)
    /\ nameID1_string' = font_name
    /\ nameID16_string' = font_name
    /\ nameID4_string' = font_name \o <<" ">> \o style
    /\ nameID6_string' =
           postscript_font_name' \o <<"-">> \o replace(style, " ", <<>>)
    /\ tt' = [tt EXCEPT !.names =
                 [k \in 1..Len(tt.names) |->
                     record_update(tt.names[k], nameID1_string',
                                   nameID4_string', nameID6_string',
                                   nameID16_string', style)]]
    /\ pc' = "cff"
    /\ UNCHANGED <<argv, fs, i, family_style, font_path, font_name, style,
                   new_filename, stdout, stderr, exit_code, io>>

\* lines 95-98 when the statement number `raises` (1..4) raises, 0 for none:
\* the assignments before it have been made
cff_update(cff, raises, id1, id4, id6) ==
    [FamilyName |-> IF raises = 0 \/ raises > 2 THEN id1 ELSE cff.FamilyName,
     FullName |-> IF raises = 0 \/ raises > 3 THEN id4 ELSE cff.FullName,
     fontNames |-> IF raises = 0 THEN <<id6>> ELSE cff.fontNames]

\* variant: the except clause ends the process
UpdateCFF_fatal ==
    /\ pc = "cff"
    /\ IF tt.has_cff
       THEN \E raises \in 0..4 :
              /\ tt' = [tt EXCEPT !.cff =
                           cff_update(tt.cff, raises, nameID1_string,
                                      nameID4_string, nameID6_string)]
              /\ IF raises = 0
                 THEN /\ pc' = "save"
                      /\ UNCHANGED <<stderr, exit_code>>
                 ELSE Exit1(<<"cff_error">>)
       ELSE /\ pc' = "save"
            /\ UNCHANGED <<tt, stderr, exit_code>>
    /\ UNCHANGED <<argv, fs, i, family_style, font_path, font_name, style,
                   postscript_font_name, nameID1_string, nameID16_string,
                   nameID4_string, nameID6_string, new_filename, stdout, io>>

\* lines 92-102: the CFF names, when the font has a CFF table; an exception
\* is caught and reported, and main goes on
UpdateCFF ==
    /\ pc = "cff"
    /\ IF tt.has_cff
       THEN \E raises \in 0..4 :
              /\ tt' = [tt EXCEPT !.cff =
                           cff_update(tt.cff, raises, nameID1_string,
                                      nameID4_string, nameID6_string)]
              /\ stderr' = IF raises = 0 THEN stderr
                                         ELSE Append(stderr, "cff_error")
       ELSE UNCHANGED <<tt, stderr>>
    /\ pc' = "save"
    /\ UNCHANGED <<argv, fs, i, family_style, font_path, font_name, style,
                   postscript_font_name, nameID1_string, nameID16_string,
                   nameID4_string, nameID6_string, new_filename, stdout,
                   exit_code, io>>

\* variant: an existing file is left as it is
save_keep(files, font, path) ==
    IF path \in DOMAIN files THEN files ELSE (path :> FontFile(font)) @@ files

\* tt.save(new_filename): the file now holds the tables of tt
save(files, font, path) == (path :> FontFile(font)) @@ files

\* lines 104-120: build the file name and save; the save may fail
\* (permission denied, invalid target, a string the record cannot encode)
SaveFont ==
    /\ pc = "save"
    /\ new_filename' =
           filename_format(postscript_font_name, replace(style, " ", <<>>),
                           splitext(font_path)[2])
    /\ \E ok \in BOOLEAN :
          /\ io' = Append(io, IOEvent("save", new_filename', ok, tt.id))
          /\ IF ok
             THEN /\ fs' = save(fs, tt, new_filename')
                  /\ stdout' = Append(stdout,
                                      OKLine(new_filename', font_name, style))
                  /\ i' = i + 2
                  /\ pc' = "for"
                  /\ UNCHANGED <<stderr, exit_code>>
             ELSE /\ Exit1(<<"save_error">>)
                  /\ UNCHANGED <<fs, stdout, i>>
    /\ UNCHANGED <<argv, family_style, font_path, font_name, style, tt,
                   postscript_font_name, nameID1_string, nameID16_string,
                   nameID4_string, nameID6_string>>

Next ==
    \/ CheckArgs
    \/ NextPair
    \/ Return
    \/ LoadFont
    \/ UpdateNameRecords
    \/ UpdateCFF
    \/ SaveFont

Spec == Init /\ [][Next]_vars

----------------------------------------------------------------------------
\* Vocabulary of the properties

NameIDs == {1, 2, 4, 6, 16}

Last(q) == q[Len(q)]

NoSpaces(s) == SelectSeq(s, LAMBDA c : c # " ")

\* the string the Renamer derives for a name id from (family, style)
Derived(id, family, sty) ==
    CASE id = 1 -> family
      [] id = 2 -> sty
      [] id = 4 -> family \o <<" ">> \o sty
      [] id = 6 -> NoSpaces(family) \o <<"-">> \o NoSpaces(sty)
      [] id = 16 -> family

\* what reading name id `id` of a name table returns: the strings of the
\* records with that id, nothing when there is no such record
ReadName(names, id) ==
    { names[k].string : k \in { j \in 1..Len(names) : names[j].nameID = id } }

IDsOf(names) == { names[k].nameID : k \in 1..Len(names) }

\* the extension of a path, stated on the path itself: the suffix that
\* starts at the last dot of the last component, provided a character other
\* than a dot precedes it in that component
ExtOf(p) ==
    LET starts == { d \in 1..Len(p) :
                      /\ p[d] = "."
                      /\ \A k \in (d + 1)..Len(p) : p[k] \notin {".", "/"}
                      /\ \E m \in 1..(d - 1) :
                            /\ p[m] # "."
                            /\ \A q \in m..(d - 1) : p[q] # "/" }
    IN  IF starts = {} THEN <<>>
        ELSE SubSeq(p, CHOOSE d \in starts : TRUE, Len(p))

\* the pair at loop index i - 2 has just been saved
SavedOK == pc \in {"for", "done"} /\ i > 0

\* a save has just been attempted for the current locals
SaveAttempted ==
    \/ SavedOK
    \/ pc = "exited" /\ stderr # <<>> /\ Last(stderr) = "save_error"

Terminated == pc \in {"done", "exited"}

FatalKinds ==
    {"args_error", "traceback", "format_error", "path_error", "save_error"}

HasColon(token) == \E k \in 1..Len(token) : token[k] = ":"

RegularFile(files, path) == path \in DOMAIN files /\ files[path].kind # "dir"

----------------------------------------------------------------------------
\* C1 (as stated): after a successful save for a well-formed spec, the
\* reloaded file returns the derived string for each of the name ids 1, 2,
\* 4, 6 and 16.
C1_RoundTripAllFive ==
    SavedOK /\ font_name # <<>> /\ style # <<>> =>
        \A id \in NameIDs :
            ReadName(TTFont(fs, new_filename).names, id)
                = {Derived(id, font_name, style)}

\* C1 (amended): after a successful save for a well-formed spec, every
\* record of the reloaded file whose id is 1, 2, 4, 6 or 16 carries the
\* derived string of its id, and the file has records for exactly the ids
\* the loaded font has: an id without a record still reads as nothing.
C1_RoundTripPresent ==
    SavedOK /\ font_name # <<>> /\ style # <<>> =>
        /\ \A id \in NameIDs :
              ReadName(TTFont(fs, new_filename).names, id)
                  \subseteq {Derived(id, font_name, style)}
        /\ IDsOf(TTFont(fs, new_filename).names) = IDsOf(tt.names)

C1_Witness ==
    /\ SavedOK
    /\ font_name = <<"A", " ", "B">>
    /\ style = <<"C", " ", "D">>
    /\ ReadName(TTFont(fs, new_filename).names, 16) = {}
    /\ ReadName(TTFont(fs, new_filename).names, 4)
           = {<<"A", " ", "B", " ", "C", " ", "D">>}
    /\ ReadName(TTFont(fs, new_filename).names, 6)
           = {<<"A", "B", "-", "C", "D">>}

\* C2: the name-record update keeps the number of records and the id,
\* platform, encoding and language of each, and keeps the string of every
\* record whose id is not 1, 2, 4, 6 or 16.
C2_UpdateFrame ==
    [][pc = "names" =>
         /\ Len(tt'.names) = Len(tt.names)
         /\ \A k \in 1..Len(tt.names) :
               /\ tt'.names[k].nameID = tt.names[k].nameID
               /\ tt'.names[k].platformID = tt.names[k].platformID
               /\ tt'.names[k].platEncID = tt.names[k].platEncID
               /\ tt'.names[k].langID = tt.names[k].langID
               /\ tt.names[k].nameID \notin NameIDs =>
                      tt'.names[k].string = tt.names[k].string]_vars

C2_Witness ==
    /\ pc = "cff"
    /\ \E k \in 1..Len(tt.names) :
          /\ tt.names[k].nameID = 5
          /\ tt.names[k].string = <<"V">>
    /\ \E k \in 1..Len(tt.names) :
          /\ tt.names[k].nameID = 1
          /\ tt.names[k].platformID = 1
          /\ tt.names[k].string = <<"A", " ", "B">>

\* C3: the path of a save is the family without spaces, "-", the style
\* without spaces and the extension of the input path, dot and case kept.
C3_OutputPath ==
    SaveAttempted =>
        /\ new_filename =
              NoSpaces(font_name) \o <<"-">> \o NoSpaces(style)
                  \o ExtOf(font_path)
        /\ Last(io).op = "save"
        /\ Last(io).path = new_filename

C3_Witness ==
    /\ SavedOK
    /\ font_path = P_hidden
    /\ font_name = <<"A", " ", "B">>
    /\ new_filename = <<"A", "B", "-", "C", "D">>
    /\ new_filename \in DOMAIN fs

\* C4: the exit code is 0 only when every pair was saved and nothing fatal
\* was reported, it is 1 once anything fatal happened, and a run whose only
\* messages are CFF warnings ends with 0.
C4_ExitCode ==
    /\ exit_code = 0 =>
          /\ pc = "done"
          /\ \A k \in 0..((Len(argv) \div 2) - 1) :
                \E a \in 1..Len(io) :
                    io[a].op = "save" /\ io[a].pair = 2 * k /\ io[a].ok
          /\ \A a \in 1..Len(io) : io[a].ok
          /\ \A m \in 1..Len(stderr) : stderr[m] \notin FatalKinds
    /\ ( \/ \E m \in 1..Len(stderr) : stderr[m] \in FatalKinds
         \/ \E a \in 1..Len(io) : ~io[a].ok ) => exit_code = 1
    /\ (Terminated /\ \A m \in 1..Len(stderr) : stderr[m] = "cff_error")
          => exit_code = 0

C4_Witness ==
    /\ pc = "done"
    /\ exit_code = 0
    /\ Len(argv) = 4
    /\ stderr = <<"cff_error">>

\* C5 (as stated): a run whose argument list holds a malformed pair, at any
\* position, ends with exit code 1 without having loaded or saved any font
\* and without having created a file.
C5_NoPairProcessed ==
    ( /\ Terminated
      /\ Len(argv) >= 2 /\ Len(argv) % 2 = 0
      /\ \E k \in 0..((Len(argv) \div 2) - 1) :
            \/ ~HasColon(argv[2 * k + 1])
            \/ ~RegularFile(InitialFiles, argv[2 * k + 2]) )
    => /\ exit_code = 1
       /\ \A a \in 1..Len(io) : io[a].op \notin {"load", "save"}
       /\ fs = InitialFiles

\* C5 (amended): a font is loaded only for a pair whose token has a ':' and
\* whose path is a regular file when the pair is reached; a run that reaches
\* a pair failing either test exits with code 1 at that pair, which is
\* never loaded or saved, nor is any later pair, while every pair before it
\* has been saved and its output file exists.
C5_StopsAtMalformedPair ==
    /\ pc \in {"load", "names", "cff", "save"} =>
          /\ HasColon(argv[i + 1])
          /\ RegularFile(fs, argv[i + 2])
    /\ ( /\ pc = "exited"
         /\ stderr # <<>>
         /\ Last(stderr) \in {"format_error", "path_error"} )
       => /\ exit_code = 1
          /\ ~HasColon(argv[i + 1]) \/ ~RegularFile(fs, argv[i + 2])
          /\ \A a \in 1..Len(io) :
                io[a].op \in {"load", "save"} => io[a].pair < i
          /\ \A k \in 0..((i \div 2) - 1) :
                \E a \in 1..Len(io) :
                    /\ io[a].op = "save" /\ io[a].pair = 2 * k /\ io[a].ok
                    /\ io[a].path \in DOMAIN fs

C5_Witness ==
    /\ pc = "exited"
    /\ Last(stderr) = "path_error"
    /\ i = 2
    /\ fs # InitialFiles

\* C6: an argument list of odd length or of length 0 ends in the usage
\* error with exit code 1, and no file was checked, loaded or saved.
C6_ArgumentCount ==
    (pc # "start" /\ (Len(argv) < 2 \/ Len(argv) % 2 = 1)) =>
        /\ pc = "exited"
        /\ exit_code = 1
        /\ stderr[1] = "args_error"
        /\ io = <<>>
        /\ fs = InitialFiles

C6_Witness == pc = "exited" /\ Len(argv) = 3 /\ io = <<>>

\* C7: the file system calls follow the argument order, a pair is loaded
\* only after the pair before it was saved, and a failed load or save is the
\* last call of the run, which has exited with code 1.
C7_FirstFatalEndsRun ==
    /\ \A a, b \in 1..Len(io) : a < b => io[a].pair <= io[b].pair
    /\ \A a \in 1..Len(io) :
          (io[a].op = "load" /\ io[a].pair > 0) =>
              \E b \in 1..(a - 1) :
                  io[b].op = "save" /\ io[b].ok /\ io[b].pair = io[a].pair - 2
    /\ \A a \in 1..Len(io) :
          (io[a].op \in {"load", "save"} /\ ~io[a].ok) =>
              /\ a = Len(io)
              /\ pc = "exited"
              /\ exit_code = 1

C7_Witness ==
    /\ pc = "exited"
    /\ Len(argv) = 4
    /\ HasColon(argv[3]) /\ RegularFile(fs, argv[4])
    /\ io # <<>>
    /\ Last(io).op = "save" /\ ~Last(io).ok /\ Last(io).pair = 0

\* C8: a CFF update that raises writes one warning, keeps the name records
\* as updated, goes on to the save of the pair and leaves the run going.
C8_CFFWarningNonFatal ==
    [][(pc = "cff" /\ stderr' # stderr) =>
         /\ stderr' = Append(stderr, "cff_error")
         /\ tt'.names = tt.names
         /\ \A k \in 1..Len(tt'.names) :
               tt'.names[k].nameID \in NameIDs =>
                   tt'.names[k].string
                       = Derived(tt'.names[k].nameID, font_name, style)
         /\ pc' = "save"
         /\ exit_code' = -1
         /\ i' = i]_vars

C8_Witness ==
    /\ pc = "done"
    /\ Len(argv) = 4
    /\ stderr = <<"cff_error", "cff_error">>
    /\ Len(stdout) = 3

\* C9: at the end of a run in which every pair was saved, each pair has its
\* confirmation line, and a path that several pairs saved to holds the font
\* and the derived names of the last of them.
C9_LaterSaveOverwrites ==
    pc = "done" =>
        /\ Len(stdout) = 1 + Len(argv) \div 2
        /\ \A a, b \in 2..Len(stdout) :
              ( /\ a < b
                /\ stdout[a].file = stdout[b].file
                /\ \A c \in (b + 1)..Len(stdout) :
                      stdout[c].file # stdout[b].file )
              => /\ \A id \in NameIDs :
                       ReadName(TTFont(fs, stdout[b].file).names, id)
                           \subseteq
                               {Derived(id, stdout[b].family, stdout[b].style)}
                 /\ \E e \in 1..Len(io) :
                       /\ io[e].op = "load"
                       /\ io[e].pair = 2 * (b - 2)
                       /\ io[e].font = TTFont(fs, stdout[b].file).id

C9_Witness ==
    /\ pc = "done"
    /\ Len(stdout) = 3
    /\ stdout[2].file = stdout[3].file
    /\ stdout[2].family = <<"A", " ", "B">>
    /\ stdout[3].family = <<"A", "B">>
    /\ argv[2] = P_plain /\ argv[4] = P_dotfile
    /\ TTFont(fs, stdout[3].file).id = "B"
    /\ ReadName(TTFont(fs, stdout[3].file).names, 1) = {<<"A", "B">>}

\* C10 (as stated): a font is loaded, modified or saved only with a family
\* and a style that are both non-empty.
C10_NameSpecNonEmpty ==
    pc \in {"load", "names", "cff", "save"} =>
        font_name # <<>> /\ style # <<>>

====
